---- MODULE Spec2Model ----
(***************************************************************************)
(* Model of RenderingPlugin.cpp: the Unity native rendering plugin for the *)
(* D3D11 backend.  The file-scope statics of the plugin are the variables, *)
(* every exported function and callback is one action, and the GPU device  *)
(* is abstracted to the handles it returns and the calls it receives.      *)
(***************************************************************************)
EXTENDS Integers, Sequences, FiniteSets, TLC

\* ------------------------------------------------------------------------
\* Bounds of the model

\* g_Time takes the values 0..MaxTime
MaxTime == 1
\* texture handles passed by the script are 1..MaxTexture (0 is the null handle)
MaxTexture == 1
\* eventID values passed to the render callback are 0..MaxEventID
MaxEventID == 1
\* a handler that would raise the number of unreleased GPU objects above
\* MaxOutstanding is not started
MaxOutstanding == 16

\* ------------------------------------------------------------------------
\* Values

NULL == 0
\* the non-null handle of a created GPU object
OBJ == 1
\* the devices the host's IUnityGraphicsD3D11::GetDevice returns while the
\* renderer is D3D11: never null, and not always the same one
Devices == {1, 2}

\* the device the host holds when the plugin is loaded
FirstDevice == CHOOSE d \in Devices : \A e \in Devices : d <= e

Times == 0..MaxTime
TextureHandles == 0..MaxTexture
EventIDs == 0..MaxEventID

\* UnityGfxRenderer values the host can report; D3D11 is the only one compiled in
Renderers == {"Null", "D3D11", "D3D9"}
\* UnityGfxDeviceEventType
DeviceEvents == {"Initialize", "Shutdown", "BeforeReset", "AfterReset"}

\* Streaming-asset paths the script can pass.  What lies on disk under each:
\*   "ok"      both compiled shaders, valid bytecode
\*   "nofiles" neither shader file
\*   "badVS"   both files, the vertex shader bytecode is rejected by the device
\*   "badPS"   both files, the pixel shader bytecode is rejected by the device
Paths == {"", "ok", "nofiles", "badVS", "badPS"}

\* the members of the D3D11 resource set, in declaration order
Slots == {"VB", "CB", "VertexShader", "PixelShader", "InputLayout",
          "RasterState", "BlendState", "DepthState"}

NoResources == [s \in Slots |-> NULL]

\* ------------------------------------------------------------------------
\* The host file system and the shader compiler of the device

\* content of <path>/Shaders/DX11_9_1/<file>: "" when the file does not exist
FileContent(path, file) ==
    CASE path = "ok"      -> "valid"
      [] path = "nofiles" -> ""
      [] path = "badVS"   -> IF file = "SimpleVertexShader.cso" THEN "corrupt" ELSE "valid"
      [] path = "badPS"   -> IF file = "SimplePixelShader.cso" THEN "corrupt" ELSE "valid"
      [] OTHER            -> ""

\* LoadFileIntoBuffer whose fopen always fails
LoadFileIntoBuffer_NeverOpens(path, file) == ""

\* LoadFileIntoBuffer: the bytes read, "" (size 0) when fopen fails
LoadFileIntoBuffer(path, file) == FileContent(path, file)

\* ID3D11Device::CreateVertexShader / CreatePixelShader: the handle written to
\* the out parameter, NULL when the call fails
CreateShader(bytecode) == IF bytecode = "valid" THEN OBJ ELSE NULL

\* ------------------------------------------------------------------------
\* Program state as one record (the statics of RenderingPlugin.cpp)

FreshStatics ==
    [ s_DeviceType |-> "Null",
      g_D3D11Device |-> NULL,
      res |-> NoResources,
      g_TexturePointer |-> NULL,
      s_UnityStreamingAssetsPath |-> "",
      g_Time |-> 0 ]

\* number of non-null handles of a resource set
LiveIn(res) == Cardinality({s \in Slots : res[s] # NULL})

\* what a handler did besides changing the statics
NoEffect(P) ==
    [ P |-> P, calls |-> <<>>, created |-> 0, released |-> 0, ensure |-> "none" ]

\* ------------------------------------------------------------------------
\* Direct3D 11 setup/teardown code

\* the create calls of one pass through EnsureD3D11ResourcesAreCreated, in
\* program order, each with the slot its out parameter writes
CreateCalls(loaded, hasVS) ==
    <<  <<"CreateBuffer", "VB">>, <<"CreateBuffer", "CB">> >>
    \o (IF loaded THEN << <<"CreateVertexShader", "VertexShader">>,
                          <<"CreatePixelShader", "PixelShader">> >>
                  ELSE <<>>)
    \o (IF hasVS THEN << <<"CreateInputLayout", "InputLayout">> >> ELSE <<>>)
    \o << <<"CreateRasterizerState", "RasterState">>,
          <<"CreateDepthStencilState", "DepthState">>,
          <<"CreateBlendState", "BlendState">> >>

\* EnsureD3D11ResourcesAreCreated without its wait for the streaming-assets
\* path: it goes on to create with whatever path is stored
EnsureD3D11ResourcesAreCreated_NoPathCheck(P) ==
    IF P.res["VertexShader"] # NULL
    THEN [ret |-> TRUE, res |-> P.res, calls |-> <<>>, created |-> 0]
    ELSE
      LET path == P.s_UnityStreamingAssetsPath
          vertexShader == LoadFileIntoBuffer(path, "SimpleVertexShader.cso")
          pixelShader  == LoadFileIntoBuffer(path, "SimplePixelShader.cso")
          loaded == vertexShader # "" /\ pixelShader # ""
          r1 == [P.res EXCEPT !["VB"] = OBJ, !["CB"] = OBJ]
          r2 == IF loaded
                THEN [r1 EXCEPT !["VertexShader"] = CreateShader(vertexShader),
                                !["PixelShader"]  = CreateShader(pixelShader)]
                ELSE r1
          hasVS == r2["VertexShader"] # NULL /\ vertexShader # ""
          r3 == IF hasVS THEN [r2 EXCEPT !["InputLayout"] = OBJ] ELSE r2
          r4 == [r3 EXCEPT !["RasterState"] = OBJ, !["DepthState"] = OBJ,
                           !["BlendState"] = OBJ]
          calls == CreateCalls(loaded, hasVS)
          written == {calls[i][2] : i \in 1..Len(calls)}
      IN [ret |-> TRUE, res |-> r4, calls |-> calls,
          created |-> Cardinality({s \in written : r4[s] # NULL})]

\* EnsureD3D11ResourcesAreCreated over the statics P: the value returned, the
\* resource set it leaves, the device calls it made, the number of objects it
\* created
EnsureD3D11ResourcesAreCreated(P) ==
    IF P.res["VertexShader"] # NULL
    THEN [ret |-> TRUE, res |-> P.res, calls |-> <<>>, created |-> 0]
    ELSE IF P.s_UnityStreamingAssetsPath = ""
    THEN [ret |-> FALSE, res |-> P.res, calls |-> <<>>, created |-> 0]
    ELSE
      LET path == P.s_UnityStreamingAssetsPath
          vertexShader == LoadFileIntoBuffer(path, "SimpleVertexShader.cso")
          pixelShader  == LoadFileIntoBuffer(path, "SimplePixelShader.cso")
          loaded == vertexShader # "" /\ pixelShader # ""
          r1 == [P.res EXCEPT !["VB"] = OBJ, !["CB"] = OBJ]
          r2 == IF loaded
                THEN [r1 EXCEPT !["VertexShader"] = CreateShader(vertexShader),
                                !["PixelShader"]  = CreateShader(pixelShader)]
                ELSE r1
          hasVS == r2["VertexShader"] # NULL /\ vertexShader # ""
          r3 == IF hasVS THEN [r2 EXCEPT !["InputLayout"] = OBJ] ELSE r2
          r4 == [r3 EXCEPT !["RasterState"] = OBJ, !["DepthState"] = OBJ,
                           !["BlendState"] = OBJ]
          calls == CreateCalls(loaded, hasVS)
          written == {calls[i][2] : i \in 1..Len(calls)}
      IN [ret |-> TRUE, res |-> r4, calls |-> calls,
          created |-> Cardinality({s \in written : r4[s] # NULL})]

\* the order in which ReleaseD3D11Resources visits the slots
ReleaseOrder ==
    << "VB", "CB", "VertexShader", "PixelShader", "InputLayout",
       "RasterState", "BlendState", "DepthState" >>

\* ReleaseD3D11Resources that forgets the shader objects
ReleaseD3D11Resources_KeepsShaders(P) ==
    LET kept == {"VertexShader", "PixelShader"}
        live == SelectSeq(ReleaseOrder, LAMBDA s : P.res[s] # NULL /\ s \notin kept)
    IN [ P |-> [P EXCEPT !.res = [s \in Slots |-> IF s \in kept THEN P.res[s] ELSE NULL]],
         calls |-> [i \in 1..Len(live) |-> <<"Release", live[i]>>],
         created |-> 0,
         released |-> Len(live),
         ensure |-> "none" ]

\* SAFE_RELEASE on every slot: Release() on the non-null ones, all set to NULL
ReleaseD3D11Resources(P) ==
    LET live == SelectSeq(ReleaseOrder, LAMBDA s : P.res[s] # NULL)
    IN [ P |-> [P EXCEPT !.res = NoResources],
         calls |-> [i \in 1..Len(live) |-> <<"Release", live[i]>>],
         created |-> 0,
         released |-> Len(live),
         ensure |-> "none" ]

BoolName(b) == IF b THEN "true" ELSE "false"

\* DoEventGraphicsDeviceD3D11 that also tears the resources down before a reset
DoEventGraphicsDeviceD3D11_ReleasesOnReset(P, eventType, device) ==
    IF eventType = "Initialize"
    THEN LET Q == [P EXCEPT !.g_D3D11Device = device]
             e == EnsureD3D11ResourcesAreCreated(Q)
         IN [ P |-> [Q EXCEPT !.res = e.res],
              calls |-> e.calls,
              created |-> e.created,
              released |-> 0,
              ensure |-> BoolName(e.ret) ]
    ELSE IF eventType \in {"Shutdown", "BeforeReset"}
    THEN ReleaseD3D11Resources(P)
    ELSE NoEffect(P)

\* DoEventGraphicsDeviceD3D11 that asks the host for the device only while it
\* holds none
DoEventGraphicsDeviceD3D11_KeepsFirstDevice(P, eventType, device) ==
    IF eventType = "Initialize"
    THEN LET Q == IF P.g_D3D11Device = NULL
                  THEN [P EXCEPT !.g_D3D11Device = device]
                  ELSE P
             e == EnsureD3D11ResourcesAreCreated(Q)
         IN [ P |-> [Q EXCEPT !.res = e.res],
              calls |-> e.calls,
              created |-> e.created,
              released |-> 0,
              ensure |-> BoolName(e.ret) ]
    ELSE IF eventType = "Shutdown"
    THEN ReleaseD3D11Resources(P)
    ELSE NoEffect(P)

DoEventGraphicsDeviceD3D11(P, eventType, device) ==
    IF eventType = "Initialize"
    THEN LET Q == [P EXCEPT !.g_D3D11Device = device]
             e == EnsureD3D11ResourcesAreCreated(Q)
         IN [ P |-> [Q EXCEPT !.res = e.res],
              calls |-> e.calls,
              created |-> e.created,
              released |-> 0,
              ensure |-> BoolName(e.ret) ]
    ELSE IF eventType = "Shutdown"
    THEN ReleaseD3D11Resources(P)
    ELSE NoEffect(P)

\* ------------------------------------------------------------------------
\* GraphicsDeviceEvent.  renderer is what s_Graphics->GetRenderer() answers,
\* device what d3d11->GetDevice() answers.

OnGraphicsDeviceEvent(P, eventType, renderer, device) ==
    LET Q == CASE eventType = "Initialize" -> [P EXCEPT !.s_DeviceType = renderer]
               [] eventType = "Shutdown"   -> [P EXCEPT !.s_DeviceType = "Null",
                                                        !.g_TexturePointer = NULL]
               [] OTHER                    -> P
        currentDeviceType == IF eventType = "Initialize" THEN renderer
                             ELSE P.s_DeviceType
    IN IF currentDeviceType = "D3D11"
       THEN DoEventGraphicsDeviceD3D11(Q, eventType, device)
       ELSE NoEffect(Q)

\* ------------------------------------------------------------------------
\* Exported setters

SetTimeFromUnity(P, t) == [P EXCEPT !.g_Time = t]

SetUnityStreamingAssetsPath(P, path) ==
    [P EXCEPT !.s_UnityStreamingAssetsPath = path]

SetTextureFromUnity(P, texturePtr) == [P EXCEPT !.g_TexturePointer = texturePtr]

\* ------------------------------------------------------------------------
\* OnRenderEvent

\* "obj" for a non-null handle argument, "null" for a null one
Arg(h) == IF h = NULL THEN "null" ELSE "obj"

\* SetDefaultGraphicsState without its test of the device type
SetDefaultGraphicsState_NoTypeCheck(P) ==
    << <<"GetImmediateContext", Arg(P.g_D3D11Device)>>,
       <<"OMSetDepthStencilState", Arg(P.res["DepthState"])>>,
       <<"RSSetState", Arg(P.res["RasterState"])>>,
       <<"OMSetBlendState", Arg(P.res["BlendState"])>>,
       <<"ReleaseContext", "ctx">> >>

\* SetDefaultGraphicsState: the immediate-context calls it issues
SetDefaultGraphicsState(P) ==
    IF P.s_DeviceType = "D3D11"
    THEN << <<"GetImmediateContext", Arg(P.g_D3D11Device)>>,
            <<"OMSetDepthStencilState", Arg(P.res["DepthState"])>>,
            <<"RSSetState", Arg(P.res["RasterState"])>>,
            <<"OMSetBlendState", Arg(P.res["BlendState"])>>,
            <<"ReleaseContext", "ctx">> >>
    ELSE <<>>

\* the texture block of DoRendering without its test of g_TexturePointer
UpdateTexture_NoNullCheck(P) ==
    << <<"GetDesc", "texture">>,
       <<"FillTextureFromCode", "data">>,
       <<"UpdateSubresource", "texture">> >>

\* the "update native texture from code" block of DoRendering
UpdateTexture(P) ==
    IF P.g_TexturePointer # NULL
    THEN << <<"GetDesc", "texture">>,
            <<"FillTextureFromCode", "data">>,
            <<"UpdateSubresource", "texture">> >>
    ELSE <<>>

\* the draw block of DoRendering, Q being the statics after the ensure call
DrawTriangle(Q) ==
    << <<"GetImmediateContext", Arg(Q.g_D3D11Device)>>,
       <<"UpdateSubresource", "CB">>,
       <<"VSSetConstantBuffers", Arg(Q.res["CB"])>>,
       <<"VSSetShader", Arg(Q.res["VertexShader"])>>,
       <<"PSSetShader", Arg(Q.res["PixelShader"])>>,
       <<"UpdateSubresource", "VB">>,
       <<"IASetInputLayout", Arg(Q.res["InputLayout"])>>,
       <<"IASetPrimitiveTopology", "TRIANGLELIST">>,
       <<"IASetVertexBuffers", Arg(Q.res["VB"])>>,
       <<"Draw", "3">> >>

DoRendering(P) ==
    IF P.s_DeviceType = "D3D11"
    THEN LET e == EnsureD3D11ResourcesAreCreated(P)
             Q == [P EXCEPT !.res = e.res]
         IN [ P |-> Q,
              calls |-> IF e.ret
                        THEN e.calls \o DrawTriangle(Q) \o UpdateTexture(Q)
                                     \o << <<"ReleaseContext", "ctx">> >>
                        ELSE e.calls,
              created |-> e.created,
              released |-> 0,
              ensure |-> BoolName(e.ret) ]
    ELSE NoEffect(P)

\* eventID is accepted and ignored
OnRenderEvent(P, eventID) ==
    IF P.s_DeviceType = "Null"
    THEN NoEffect(P)
    ELSE LET d == DoRendering(P)
         IN [d EXCEPT !.calls = SetDefaultGraphicsState(P) \o d.calls]

\* some call named `name` is among calls
Issued(calls, name) == \E i \in 1..Len(calls) : calls[i][1] = name
\* the call c is among calls
IssuedCall(calls, c) == \E i \in 1..Len(calls) : calls[i] = c

\* ------------------------------------------------------------------------
\* FillTextureFromCode, statement by statement.  Angles are in hundredths of a
\* radian, sines in thousandths; addresses are byte offsets from `data`.

\* ID3D11Texture2D::GetDesc: the size of the texture behind a handle
GetDesc(texture) == [Width |-> texture + 2, Height |-> texture + 1]

\* pi, in hundredths of a radian
PI == 314

\* sinf, in thousandths, of an angle in hundredths of a radian
sinf(a) ==
    LET r == a % (2 * PI)
        h == IF r <= PI THEN r ELSE r - PI
        p == h * (PI - h)
        m == (16000 * p) \div (5 * PI * PI - 4 * p)
    IN IF r <= PI THEN m ELSE 0 - m

\* sqrtf(float(n)), in hundredths
sqrtf(n) ==
    CHOOSE r \in 0..(100 * n) : r * r <= 10000 * n /\ (r + 1) * (r + 1) > 10000 * n

\* the plasma value vv of pixel (x, y), t being g_Time * 4.0f
PlasmaValue(x, y, t) ==
    LET s == sinf((100 * x) \div 7 + t)
             + sinf((100 * y) \div 5 - t)
             + sinf((100 * (x + y)) \div 6 - t)
             + sinf(sqrtf(x * x + y * y) \div 4 - t)
        sum == 4 * 127000 + 127 * s
    IN (sum \div 1000) \div 4

\* conversion of an int to unsigned char
ToByte(v) == v % 256

\* the bytes `new unsigned char[n]` may hold before anything is written
Garbage == {0, 255}

\* no texture update in progress
NoFill ==
    [ pc |-> "idle", width |-> 0, height |-> 0, stride |-> 0, t |-> 0, time |-> 0,
      x |-> 0, y |-> 0, dst |-> 0, ptr |-> 0,
      data |-> <<>>, writes |-> <<>>, oob |-> FALSE, uploaded |-> <<>> ]

\* the texture block of DoRendering up to the entry of FillTextureFromCode
BeginFill(P, garbage) ==
    LET desc == GetDesc(P.g_TexturePointer)
        n == desc.Width * desc.Height * 4
    IN [ NoFill EXCEPT !.pc = "row",
                       !.width = desc.Width,
                       !.height = desc.Height,
                       !.stride = desc.Width * 4,
                       !.time = P.g_Time,
                       !.t = P.g_Time * 400,
                       !.data = [i \in 1..n |-> garbage],
                       !.writes = [i \in 1..n |-> 0] ]

\* a store that leaves the fourth channel of a pixel alone
StoreByte_SkipsAlpha(f, off, v) ==
    IF off % 4 = 3
    THEN f
    ELSE IF off >= 0 /\ off < Len(f.data)
    THEN [f EXCEPT !.data[off + 1] = ToByte(v), !.writes[off + 1] = @ + 1]
    ELSE [f EXCEPT !.oob = TRUE]

\* *(data + off) = v
StoreByte(f, off, v) ==
    IF off >= 0 /\ off < Len(f.data)
    THEN [f EXCEPT !.data[off + 1] = ToByte(v), !.writes[off + 1] = @ + 1]
    ELSE [f EXCEPT !.oob = TRUE]

\* FillTextureFromCode whose rows are one pixel further apart than the stride
FillTextureFromCode_WideRows(f) ==
    IF f.pc = "row"
    THEN IF f.y < f.height
         THEN [f EXCEPT !.ptr = f.dst, !.x = 0, !.pc = "pixel"]
         ELSE [f EXCEPT !.pc = "upload"]
    ELSE IF f.x < f.width
         THEN LET vv == PlasmaValue(f.x, f.y, f.t)
                  g == StoreByte(StoreByte(StoreByte(StoreByte(f,
                           f.ptr, vv), f.ptr + 1, vv), f.ptr + 2, vv), f.ptr + 3, vv)
              IN [g EXCEPT !.ptr = f.ptr + 4, !.x = f.x + 1]
         ELSE [f EXCEPT !.dst = f.dst + f.stride + 4, !.y = f.y + 1, !.pc = "row"]

\* one step of FillTextureFromCode: the head of the row loop, or one pixel /
\* the end of a row
FillTextureFromCode(f) ==
    IF f.pc = "row"
    THEN IF f.y < f.height
         THEN [f EXCEPT !.ptr = f.dst, !.x = 0, !.pc = "pixel"]
         ELSE [f EXCEPT !.pc = "upload"]
    ELSE IF f.x < f.width
         THEN LET vv == PlasmaValue(f.x, f.y, f.t)
                  g == StoreByte(StoreByte(StoreByte(StoreByte(f,
                           f.ptr, vv), f.ptr + 1, vv), f.ptr + 2, vv), f.ptr + 3, vv)
              IN [g EXCEPT !.ptr = f.ptr + 4, !.x = f.x + 1]
         ELSE [f EXCEPT !.dst = f.dst + f.stride, !.y = f.y + 1, !.pc = "row"]

\* ID3D11DeviceContext::UpdateSubresource (d3dtex, 0, NULL, data, Width*4, 0):
\* the bytes the texture receives
UpdateSubresource(f) ==
    [i \in 1..(f.width * 4 * f.height) |->
        IF i <= Len(f.data) THEN f.data[i] ELSE "unmapped"]

\* ------------------------------------------------------------------------
\* The statics the script thread writes while the render thread reads them

\* the characters of a path
Chars(path) ==
    CASE path = "ok"      -> <<"o", "k">>
      [] path = "nofiles" -> <<"n", "f">>
      [] path = "badVS"   -> <<"b", "V">>
      [] path = "badPS"   -> <<"b", "P">>
      [] OTHER            -> <<>>

\* the character buffer of a std::string holding path
Buffer(path) ==
    [i \in 1..2 |-> IF i <= Len(Chars(path)) THEN Chars(path)[i] ELSE "NUL"]

\* the script thread is not inside SetUnityStreamingAssetsPath
NoAssignment ==
    [ pc |-> "idle", to |-> "", sizeFirst |-> FALSE, sizeDone |-> FALSE, copied |-> 0 ]

\* one store of std::string::operator=(const char*): the size field or the
\* next character, the size first or last as the library was built
AssignStep(a) ==
    IF a.sizeFirst /\ ~a.sizeDone
    THEN [a EXCEPT !.sizeDone = TRUE]
    ELSE IF a.copied < Len(Chars(a.to))
    THEN [a EXCEPT !.copied = a.copied + 1]
    ELSE [a EXCEPT !.sizeDone = TRUE]

\* operator= has made all its stores
Assigned(a) == a.sizeDone /\ a.copied = Len(Chars(a.to))

\* the memory of s_UnityStreamingAssetsPath while assignment a overwrites old
StringMemory(old, a) ==
    IF a.pc = "idle"
    THEN [size |-> Len(Chars(old)), data |-> Buffer(old)]
    ELSE [size |-> IF a.sizeDone THEN Len(Chars(a.to)) ELSE Len(Chars(old)),
          data |-> [i \in 1..2 |-> IF i <= a.copied THEN Buffer(a.to)[i]
                                                    ELSE Buffer(old)[i]]]

\* std::string's copy constructor: the characters a reader takes from memory
CopyString(mem) == SubSeq(mem.data, 1, mem.size)

\* the directory a character string names: a path of the host, or none
Directory(chars) ==
    IF \E p \in Paths : Chars(p) = chars
    THEN CHOOSE p \in Paths : Chars(p) = chars
    ELSE "nowhere"

\* the render thread is not inside OnRenderEvent
RtIdle ==
    [ pc |-> "idle", phi |-> 0, vertexShaderPath |-> <<>>,
      checked |-> NULL, d3dtex |-> NULL, t |-> 0,
      read |-> [field |-> "none", seen |-> 0, before |-> 0, after |-> 0] ]

\* the creation pass of EnsureD3D11ResourcesAreCreated after its two tests,
\* with the two copies it took of the path
CreateD3D11Resources(res, vertexShaderPath, fragmentShaderPath) ==
    LET vertexShader == LoadFileIntoBuffer(vertexShaderPath, "SimpleVertexShader.cso")
        pixelShader  == LoadFileIntoBuffer(fragmentShaderPath, "SimplePixelShader.cso")
        loaded == vertexShader # "" /\ pixelShader # ""
        r1 == [res EXCEPT !["VB"] = OBJ, !["CB"] = OBJ]
        r2 == IF loaded
              THEN [r1 EXCEPT !["VertexShader"] = CreateShader(vertexShader),
                              !["PixelShader"]  = CreateShader(pixelShader)]
              ELSE r1
        hasVS == r2["VertexShader"] # NULL /\ vertexShader # ""
        r3 == IF hasVS THEN [r2 EXCEPT !["InputLayout"] = OBJ] ELSE r2
    IN [r3 EXCEPT !["RasterState"] = OBJ, !["DepthState"] = OBJ, !["BlendState"] = OBJ]

\* ------------------------------------------------------------------------
\* UnitySetInterfaces.  `host` lists, in program order, the calls made on the
\* host's IUnityGraphics registry and the callback invocations.

\* what OnGraphicsDeviceEvent asks of the host when it handles eventType
DeviceEventHostCalls(eventType, renderer) ==
    << <<"OnGraphicsDeviceEvent", eventType>> >>
    \o (IF eventType = "Initialize" THEN << <<"GetRenderer", renderer>> >> ELSE <<>>)

\* UnityPluginLoad that runs the Initialize before it registers the callback
UnityPluginLoad_InitializeFirst(P, renderer, device) ==
    [ effect |-> OnGraphicsDeviceEvent(P, "Initialize", renderer, device),
      host |-> DeviceEventHostCalls("Initialize", renderer)
               \o << <<"RegisterDeviceEventCallback", "OnGraphicsDeviceEvent">> >>,
      registered |-> TRUE ]

UnityPluginLoad(P, renderer, device) ==
    [ effect |-> OnGraphicsDeviceEvent(P, "Initialize", renderer, device),
      host |-> << <<"RegisterDeviceEventCallback", "OnGraphicsDeviceEvent">> >>
               \o DeviceEventHostCalls("Initialize", renderer),
      registered |-> TRUE ]

UnityPluginUnload(P) ==
    [ effect |-> NoEffect(P),
      host |-> << <<"UnregisterDeviceEventCallback", "OnGraphicsDeviceEvent">> >>,
      registered |-> FALSE ]

\* ------------------------------------------------------------------------
\* State

VARIABLES
    s_DeviceType,                \* UnityGfxRenderer captured at Initialize
    g_D3D11Device,               \* ID3D11Device*
    g_D3D11,                     \* the eight g_D3D11* resource pointers, by slot
    g_TexturePointer,            \* void* set by the script
    s_UnityStreamingAssetsPath,  \* std::string set by the script
    g_Time,                      \* float set by the script each frame
    registered,                  \* OnGraphicsDeviceEvent is registered with s_Graphics
    hostCalls,                   \* registry calls and callback invocations of the last handler
    lastOp,                      \* the handler that ran last, and s_DeviceType when it started
    gpuCalls,                    \* device and context calls issued by that handler
    lastEnsure,                  \* what EnsureD3D11ResourcesAreCreated returned in it
    lastCreated,                 \* GPU objects it created
    prevEnsure,                  \* what the latest ensure call before that handler returned
    outstanding,                 \* GPU objects created and not released so far
    pathEverSet,                 \* SetUnityStreamingAssetsPath has been called
    trail,                       \* device events so far, as a prefix of Initialize;Shutdown;Initialize
    initDevice,                  \* what GetDevice answered in the latest Initialize, NULL if not asked
    fillRun,                     \* the texture update of the render event in progress
    fillOutputs,                 \* what the texture received so far, by width, height and time
    rt,                          \* the render thread inside OnRenderEvent, with its locals
    setPath                      \* the script thread inside the assignment to the path string

prog == << s_DeviceType, g_D3D11Device, g_D3D11, g_TexturePointer,
           s_UnityStreamingAssetsPath, g_Time >>
vars == << s_DeviceType, g_D3D11Device, g_D3D11, g_TexturePointer,
           s_UnityStreamingAssetsPath, g_Time, registered, hostCalls, lastOp,
           gpuCalls, lastEnsure, lastCreated, prevEnsure, outstanding, pathEverSet, trail, initDevice,
           fillRun, fillOutputs, rt, setPath >>

\* the statics as one record
Statics ==
    [ s_DeviceType |-> s_DeviceType,
      g_D3D11Device |-> g_D3D11Device,
      res |-> g_D3D11,
      g_TexturePointer |-> g_TexturePointer,
      s_UnityStreamingAssetsPath |-> s_UnityStreamingAssetsPath,
      g_Time |-> g_Time ]

Init ==
    /\ s_DeviceType = FreshStatics.s_DeviceType
    /\ g_D3D11Device = FreshStatics.g_D3D11Device
    /\ g_D3D11 = FreshStatics.res
    /\ g_TexturePointer = FreshStatics.g_TexturePointer
    /\ s_UnityStreamingAssetsPath = FreshStatics.s_UnityStreamingAssetsPath
    /\ g_Time = FreshStatics.g_Time
    /\ registered = FALSE
    /\ hostCalls = <<>>
    /\ lastOp = [name |-> "none", backend |-> "Null"]
    /\ gpuCalls = <<>>
    /\ lastEnsure = "none"
    /\ lastCreated = 0
    /\ prevEnsure = "none"
    /\ outstanding = 0
    /\ pathEverSet = FALSE
    /\ trail = [stage |-> "fresh", renderer |-> "Null"]
    /\ initDevice = NULL
    /\ fillRun = NoFill
    /\ fillOutputs = {}
    /\ rt = RtIdle
    /\ setPath = NoAssignment

\* the statics become Q
Store(Q) ==
    /\ s_DeviceType' = Q.s_DeviceType
    /\ g_D3D11Device' = Q.g_D3D11Device
    /\ g_D3D11' = Q.res
    /\ g_TexturePointer' = Q.g_TexturePointer
    /\ s_UnityStreamingAssetsPath' = Q.s_UnityStreamingAssetsPath
    /\ g_Time' = Q.g_Time

\* handler `name` ran with effect e
Handled(name, e) ==
    /\ outstanding + e.created - e.released <= MaxOutstanding
    /\ Store(e.P)
    /\ lastOp' = [name |-> name, backend |-> s_DeviceType]
    /\ gpuCalls' = e.calls
    /\ lastEnsure' = e.ensure
    /\ lastCreated' = e.created
    /\ prevEnsure' = (IF lastEnsure # "none" THEN lastEnsure ELSE prevEnsure)
    /\ outstanding' = outstanding + e.created - e.released

\* handler `name` ran from entry to return, nothing else running
Ran(name, e) ==
    /\ Handled(name, e)
    /\ UNCHANGED << fillRun, fillOutputs, rt, setPath >>

\* the device the host handed out in the latest Initialize, after one more
\* device event: GetDevice is asked on Initialize when the renderer is D3D11
DeviceAsked(eventType, renderer, device) ==
    IF eventType = "Initialize"
    THEN IF renderer = "D3D11" THEN device ELSE NULL
    ELSE initDevice

\* the device-event trail after one more device event
TrailAfter(eventType, renderer) ==
    CASE trail.stage = "fresh" /\ eventType = "Initialize"
            -> [stage |-> "I", renderer |-> renderer]
      [] trail.stage = "I" /\ eventType = "Shutdown"
            -> [trail EXCEPT !.stage = "IS"]
      [] trail.stage = "IS" /\ eventType = "Initialize" /\ renderer = trail.renderer
            -> [trail EXCEPT !.stage = "ISI"]
      [] OTHER -> [stage |-> "off", renderer |-> "Null"]

\* ------------------------------------------------------------------------
\* Calls from the host (render thread) and from the script

\* UnityPluginLoad: register the callback, then run Initialize by hand
HostPluginLoad(renderer, device) ==
    /\ ~registered
    /\ LET l == UnityPluginLoad(Statics, renderer, device)
       IN /\ registered' = l.registered
          /\ hostCalls' = l.host
          /\ Ran("UnityPluginLoad", l.effect)
    /\ trail' = TrailAfter("Initialize", renderer)
    /\ initDevice' = DeviceAsked("Initialize", renderer, device)
    /\ UNCHANGED pathEverSet

\* UnityPluginUnload
HostPluginUnload ==
    /\ registered
    /\ LET u == UnityPluginUnload(Statics)
       IN /\ registered' = u.registered
          /\ hostCalls' = u.host
          /\ Ran("UnityPluginUnload", u.effect)
    /\ UNCHANGED << pathEverSet, trail, initDevice >>

\* the host's graphics subsystem signals a device event to the registered callback
HostDeviceEvent(eventType, renderer, device) ==
    /\ registered
    /\ Ran(eventType, OnGraphicsDeviceEvent(Statics, eventType, renderer, device))
    /\ hostCalls' = DeviceEventHostCalls(eventType, renderer)
    /\ trail' = TrailAfter(eventType, renderer)
    /\ initDevice' = DeviceAsked(eventType, renderer, device)
    /\ UNCHANGED << registered, pathEverSet >>

\* GL.IssuePluginEvent(GetRenderEventFunc(), eventID)
HostRenderEvent(eventID) ==
    /\ Ran("OnRenderEvent", OnRenderEvent(Statics, eventID))
    /\ hostCalls' = <<>>
    /\ UNCHANGED << registered, pathEverSet, trail, initDevice >>

ScriptSetTime(t) ==
    /\ Ran("SetTimeFromUnity", NoEffect(SetTimeFromUnity(Statics, t)))
    /\ hostCalls' = <<>>
    /\ UNCHANGED << registered, pathEverSet, trail, initDevice >>

ScriptSetPath(path) ==
    /\ Ran("SetUnityStreamingAssetsPath",
           NoEffect(SetUnityStreamingAssetsPath(Statics, path)))
    /\ hostCalls' = <<>>
    /\ pathEverSet' = TRUE
    /\ UNCHANGED << registered, trail, initDevice >>

ScriptSetTexture(texturePtr) ==
    /\ Ran("SetTextureFromUnity", NoEffect(SetTextureFromUnity(Statics, texturePtr)))
    /\ hostCalls' = <<>>
    /\ UNCHANGED << registered, pathEverSet, trail, initDevice >>

Next ==
    \/ \E renderer \in Renderers, device \in Devices : HostPluginLoad(renderer, device)
    \/ HostPluginUnload
    \/ \E eventType \in DeviceEvents, renderer \in Renderers, device \in Devices :
          HostDeviceEvent(eventType, renderer, device)
    \/ \E eventID \in EventIDs : HostRenderEvent(eventID)
    \/ \E t \in Times : ScriptSetTime(t)
    \/ \E path \in Paths : ScriptSetPath(path)
    \/ \E texturePtr \in TextureHandles : ScriptSetTexture(texturePtr)

Spec == Init /\ [][Next]_vars

\* ------------------------------------------------------------------------
\* One thread, the texture update of a render event taken statement by
\* statement

\* a render event that does not get to the texture update
RenderWithoutFill(eventID) ==
    /\ fillRun.pc = "idle"
    /\ ~Issued(OnRenderEvent(Statics, eventID).calls, "FillTextureFromCode")
    /\ HostRenderEvent(eventID)

\* a render event up to the first statement of FillTextureFromCode
RenderToFill(eventID, garbage) ==
    LET e == OnRenderEvent(Statics, eventID)
        k == CHOOSE i \in 1..Len(e.calls) : e.calls[i][1] = "GetDesc"
    IN /\ fillRun.pc = "idle"
       /\ Issued(e.calls, "FillTextureFromCode")
       /\ Handled("OnRenderEvent", [e EXCEPT !.calls = SubSeq(e.calls, 1, k)])
       /\ hostCalls' = <<>>
       /\ fillRun' = BeginFill(e.P, garbage)
       /\ UNCHANGED << registered, pathEverSet, trail, initDevice, fillOutputs,
                       rt, setPath >>

\* the next statement of FillTextureFromCode
FillStep ==
    /\ fillRun.pc \in {"row", "pixel"}
    /\ fillRun' = FillTextureFromCode(fillRun)
    /\ UNCHANGED << prog, registered, hostCalls, lastOp, gpuCalls, lastEnsure,
                    lastCreated, prevEnsure, outstanding, pathEverSet, trail, initDevice,
                    fillOutputs, rt, setPath >>

\* ctx->UpdateSubresource (d3dtex, 0, NULL, data, desc.Width*4, 0)
FillUpload ==
    /\ fillRun.pc = "upload"
    /\ fillRun' = [fillRun EXCEPT !.uploaded = UpdateSubresource(fillRun), !.pc = "free"]
    /\ fillOutputs' = fillOutputs \cup
          { [width |-> fillRun.width, height |-> fillRun.height,
             time |-> fillRun.time, pixels |-> UpdateSubresource(fillRun)] }
    /\ gpuCalls' = gpuCalls \o << <<"FillTextureFromCode", "data">>,
                                  <<"UpdateSubresource", "texture">> >>
    /\ UNCHANGED << prog, registered, hostCalls, lastOp, lastEnsure,
                    lastCreated, prevEnsure, outstanding, pathEverSet, trail, initDevice,
                    rt, setPath >>

\* delete[] data; ctx->Release(); return
FillFree ==
    /\ fillRun.pc = "free"
    /\ fillRun' = NoFill
    /\ gpuCalls' = Append(gpuCalls, <<"ReleaseContext", "ctx">>)
    /\ UNCHANGED << prog, registered, hostCalls, lastOp, lastEnsure,
                    lastCreated, prevEnsure, outstanding, pathEverSet, trail, initDevice,
                    fillOutputs, rt, setPath >>

NextFill ==
    \/ fillRun.pc = "idle" /\ \E renderer \in Renderers :
                                  HostPluginLoad(renderer, FirstDevice)
    \/ fillRun.pc = "idle" /\ \E t \in Times : ScriptSetTime(t)
    \/ fillRun.pc = "idle" /\ \E path \in Paths : ScriptSetPath(path)
    \/ fillRun.pc = "idle" /\ \E texturePtr \in TextureHandles : ScriptSetTexture(texturePtr)
    \/ \E eventID \in EventIDs : RenderWithoutFill(eventID)
    \/ \E eventID \in EventIDs, garbage \in Garbage : RenderToFill(eventID, garbage)
    \/ FillStep
    \/ FillUpload
    \/ FillFree

SpecFill == Init /\ [][NextFill]_vars

\* ------------------------------------------------------------------------
\* Two threads: the render thread inside OnRenderEvent, one read of a shared
\* static at a time, and the script thread calling the setters.  The log of
\* the sequential handlers is not kept here.

handlerLog == << registered, hostCalls, lastOp, gpuCalls, lastEnsure, lastCreated,
                 prevEnsure, outstanding, trail, initDevice, fillRun, fillOutputs >>

\* the paths the script thread sets while render events run
ConcPaths == {"ok", "nofiles"}

\* the record of one read of a shared static
ReadOf(field, seen, before, after) ==
    [field |-> field, seen |-> seen, before |-> before, after |-> after]

\* the characters of the path once the assignment in progress, if any, is over
PathAfter ==
    IF setPath.pc = "idle" THEN Chars(s_UnityStreamingAssetsPath) ELSE Chars(setPath.to)

\* the plugin is loaded before any script or render event runs
ConcPluginLoad(renderer, device) ==
    /\ rt.pc = "idle"
    /\ setPath.pc = "idle"
    /\ HostPluginLoad(renderer, device)

\* OnRenderEvent up to the call of DoRendering: float phi = g_Time
RenderBegin(eventID) ==
    /\ rt.pc = "idle"
    /\ rt' = IF s_DeviceType = "Null"
             THEN rt
             ELSE [RtIdle EXCEPT
                     !.pc = IF s_DeviceType = "D3D11" THEN "ensure" ELSE "done",
                     !.phi = g_Time,
                     !.read = ReadOf("g_Time", g_Time, g_Time, g_Time)]
    /\ UNCHANGED << prog, pathEverSet, setPath, handlerLog >>

\* EnsureD3D11ResourcesAreCreated up to the creation of the two buffers
RenderEnsure ==
    /\ rt.pc = "ensure"
    /\ LET mem == StringMemory(s_UnityStreamingAssetsPath, setPath)
       IN IF g_D3D11["VertexShader"] # NULL
          THEN /\ rt' = [rt EXCEPT !.pc = "texture"]
               /\ UNCHANGED g_D3D11
          ELSE /\ rt' = [rt EXCEPT
                           !.pc = IF mem.size = 0 THEN "done" ELSE "vertexShaderPath",
                           !.read = ReadOf("s_UnityStreamingAssetsPath.size", mem.size,
                                           Len(Chars(s_UnityStreamingAssetsPath)),
                                           Len(PathAfter))]
               /\ g_D3D11' = IF mem.size = 0
                             THEN g_D3D11
                             ELSE [g_D3D11 EXCEPT !["VB"] = OBJ, !["CB"] = OBJ]
    /\ UNCHANGED << s_DeviceType, g_D3D11Device, g_TexturePointer,
                    s_UnityStreamingAssetsPath, g_Time, pathEverSet, setPath, handlerLog >>

\* std::string vertexShaderPath(s_UnityStreamingAssetsPath)
RenderReadVertexShaderPath ==
    /\ rt.pc = "vertexShaderPath"
    /\ LET chars == CopyString(StringMemory(s_UnityStreamingAssetsPath, setPath))
       IN rt' = [rt EXCEPT !.pc = "fragmentShaderPath",
                           !.vertexShaderPath = chars,
                           !.read = ReadOf("s_UnityStreamingAssetsPath", chars,
                                           Chars(s_UnityStreamingAssetsPath), PathAfter)]
    /\ UNCHANGED << prog, pathEverSet, setPath, handlerLog >>

\* std::string fragmentShaderPath(s_UnityStreamingAssetsPath), the rest of
\* EnsureD3D11ResourcesAreCreated, and the draw
RenderReadFragmentShaderPath ==
    /\ rt.pc = "fragmentShaderPath"
    /\ LET chars == CopyString(StringMemory(s_UnityStreamingAssetsPath, setPath))
       IN /\ rt' = [rt EXCEPT !.pc = "texture",
                              !.read = ReadOf("s_UnityStreamingAssetsPath", chars,
                                              Chars(s_UnityStreamingAssetsPath), PathAfter)]
          /\ g_D3D11' = CreateD3D11Resources(g_D3D11, Directory(rt.vertexShaderPath),
                                             Directory(chars))
    /\ UNCHANGED << s_DeviceType, g_D3D11Device, g_TexturePointer,
                    s_UnityStreamingAssetsPath, g_Time, pathEverSet, setPath, handlerLog >>

\* if (g_TexturePointer)
RenderTextureCheck ==
    /\ rt.pc = "texture"
    /\ rt' = [rt EXCEPT !.pc = IF g_TexturePointer # NULL THEN "d3dtex" ELSE "done",
                        !.checked = g_TexturePointer,
                        !.read = ReadOf("g_TexturePointer", g_TexturePointer,
                                        g_TexturePointer, g_TexturePointer)]
    /\ UNCHANGED << prog, pathEverSet, setPath, handlerLog >>

\* d3dtex = (ID3D11Texture2D*)g_TexturePointer; d3dtex->GetDesc (&desc).
\* The build loads the static again for the initialiser, or keeps the value
\* it tested.
RenderTextureUse(reload) ==
    /\ rt.pc = "d3dtex"
    /\ LET d3dtex == IF reload THEN g_TexturePointer ELSE rt.checked
       IN rt' = [rt EXCEPT !.pc = IF d3dtex = NULL THEN "crashed" ELSE "fill",
                           !.d3dtex = d3dtex,
                           !.read = IF reload
                                    THEN ReadOf("g_TexturePointer", g_TexturePointer,
                                                g_TexturePointer, g_TexturePointer)
                                    ELSE rt.read]
    /\ UNCHANGED << prog, pathEverSet, setPath, handlerLog >>

\* FillTextureFromCode: const float t = g_Time * 4.0f, then the fill, the
\* upload, delete[] and ctx->Release()
RenderFill ==
    /\ rt.pc = "fill"
    /\ rt' = [rt EXCEPT !.pc = "done",
                        !.t = g_Time,
                        !.read = ReadOf("g_Time", g_Time, g_Time, g_Time)]
    /\ UNCHANGED << prog, pathEverSet, setPath, handlerLog >>

\* OnRenderEvent returns
RenderReturn ==
    /\ rt.pc = "done"
    /\ rt' = RtIdle
    /\ UNCHANGED << prog, pathEverSet, setPath, handlerLog >>

\* SetTimeFromUnity on the script thread: one aligned 4-byte store
ConcSetTime(t) ==
    /\ rt.pc # "crashed"
    /\ g_Time' = SetTimeFromUnity(Statics, t).g_Time
    /\ UNCHANGED << s_DeviceType, g_D3D11Device, g_D3D11, g_TexturePointer,
                    s_UnityStreamingAssetsPath, pathEverSet, rt, setPath, handlerLog >>

\* SetTextureFromUnity on the script thread: one aligned pointer store
ConcSetTexture(texturePtr) ==
    /\ rt.pc # "crashed"
    /\ g_TexturePointer' = SetTextureFromUnity(Statics, texturePtr).g_TexturePointer
    /\ UNCHANGED << s_DeviceType, g_D3D11Device, g_D3D11, g_Time,
                    s_UnityStreamingAssetsPath, pathEverSet, rt, setPath, handlerLog >>

\* SetUnityStreamingAssetsPath on the script thread enters operator=
ConcSetPathBegin(path, sizeFirst) ==
    /\ rt.pc # "crashed"
    /\ setPath.pc = "idle"
    /\ setPath' = [NoAssignment EXCEPT !.pc = "busy", !.to = path, !.sizeFirst = sizeFirst]
    /\ UNCHANGED << prog, pathEverSet, rt, handlerLog >>

\* the next store of operator=; after the last one the string holds the new path
ConcSetPathStep ==
    /\ rt.pc # "crashed"
    /\ setPath.pc = "busy"
    /\ LET a == AssignStep(setPath)
       IN IF Assigned(a)
          THEN /\ s_UnityStreamingAssetsPath' =
                     SetUnityStreamingAssetsPath(Statics, a.to).s_UnityStreamingAssetsPath
               /\ setPath' = NoAssignment
               /\ pathEverSet' = TRUE
          ELSE /\ setPath' = a
               /\ UNCHANGED << s_UnityStreamingAssetsPath, pathEverSet >>
    /\ UNCHANGED << s_DeviceType, g_D3D11Device, g_D3D11, g_TexturePointer, g_Time,
                    rt, handlerLog >>

NextConc ==
    \/ \E renderer \in Renderers : ConcPluginLoad(renderer, FirstDevice)
    \/ \E eventID \in EventIDs : RenderBegin(eventID)
    \/ RenderEnsure
    \/ RenderReadVertexShaderPath
    \/ RenderReadFragmentShaderPath
    \/ RenderTextureCheck
    \/ \E reload \in BOOLEAN : RenderTextureUse(reload)
    \/ RenderFill
    \/ RenderReturn
    \/ \E t \in Times : ConcSetTime(t)
    \/ \E texturePtr \in TextureHandles : ConcSetTexture(texturePtr)
    \/ \E path \in ConcPaths, sizeFirst \in BOOLEAN : ConcSetPathBegin(path, sizeFirst)
    \/ ConcSetPathStep

SpecConc == Init /\ [][NextConc]_vars

TypeOK ==
    /\ s_DeviceType \in Renderers
    /\ g_D3D11Device \in {NULL} \cup Devices
    /\ initDevice \in {NULL} \cup Devices
    /\ g_D3D11 \in [Slots -> {NULL, OBJ}]
    /\ g_TexturePointer \in TextureHandles
    /\ s_UnityStreamingAssetsPath \in Paths
    /\ g_Time \in Times
    /\ registered \in BOOLEAN
    /\ lastEnsure \in {"none", "true", "false"}
    /\ prevEnsure \in {"none", "true", "false"}
    /\ outstanding \in 0..MaxOutstanding
    /\ outstanding >= LiveIn(g_D3D11)

\* ------------------------------------------------------------------------
\* Properties

\* C1: for every eventID, a render event taken while the backend kind is Null
\* or a backend other than D3D11 issues no GPU call and leaves every static
\* (and the count of live GPU objects) as it was.
C1_RenderIsNoOpWithoutD3D11 ==
    [][ \A eventID \in EventIDs :
          (s_DeviceType # "D3D11" /\ lastOp'.name = "OnRenderEvent"
           /\ HostRenderEvent(eventID))
          => /\ gpuCalls' = <<>>
             /\ UNCHANGED prog
             /\ outstanding' = outstanding
             /\ lastEnsure' = "none" ]_vars

\* a render event ran on an unsupported backend while D3D11 objects were alive
C1_Witness ==
    /\ lastOp.name = "OnRenderEvent"
    /\ lastOp.backend = "D3D9"
    /\ g_D3D11["VertexShader"] # NULL
    /\ g_TexturePointer # NULL

\* C2: EnsureD3D11ResourcesAreCreated is idempotent.  When two handlers in a
\* row call it with a non-empty asset path, the second call creates no GPU
\* object and leaves every resource handle as the first call left it, whatever
\* the outcome of the shader-file load was.
C2_EnsureIsIdempotent ==
    [][ (lastEnsure # "none" /\ lastEnsure' # "none"
         /\ s_UnityStreamingAssetsPath # "")
        => (lastCreated' = 0 /\ g_D3D11' = g_D3D11) ]_vars

\* C3: no GPU handle is leaked.  After a Shutdown handled while the backend
\* was D3D11 (the Shutdown matching an Initialize), as many GPU objects have
\* been released as were created: none is outstanding.
C3_ReleasedEqualsCreated ==
    (lastOp.name = "Shutdown" /\ lastOp.backend = "D3D11") => outstanding = 0

\* C4: EnsureD3D11ResourcesAreCreated returns true only when the shader
\* programs exist: after a handler in which it returned true, the vertex
\* shader and the pixel shader handles are non-null.
C4_TrueOnlyWithShaders ==
    lastEnsure = "true"
    => (g_D3D11["VertexShader"] # NULL /\ g_D3D11["PixelShader"] # NULL)

\* the calls of the triangle draw and of the texture fill and upload
IssuedDrawOrFill(calls) ==
    \/ Issued(calls, "Draw")
    \/ Issued(calls, "GetDesc")
    \/ Issued(calls, "FillTextureFromCode")
    \/ Issued(calls, "UpdateSubresource")

\* C5: while the asset path has never been set, every call of
\* EnsureD3D11ResourcesAreCreated returns false and creates no GPU object (no
\* resource handle is set, nothing is outstanding), and a render event issues
\* neither the triangle draw nor the texture fill or upload, whatever the
\* texture handle is.
C5_NotReadySkipsFrame ==
    (~pathEverSet /\ lastEnsure # "none")
    => /\ lastEnsure = "false"
       /\ lastCreated = 0
       /\ g_D3D11 = NoResources
       /\ outstanding = 0
       /\ ~IssuedDrawOrFill(gpuCalls)

\* a render event ran on D3D11 with a texture handle set and the path never set
C5_Witness ==
    /\ ~pathEverSet
    /\ lastOp.name = "OnRenderEvent"
    /\ lastOp.backend = "D3D11"
    /\ lastEnsure = "false"
    /\ g_TexturePointer # NULL

\* after a render event on D3D11 that left a shader missing, the manager is
\* not ready: the ensure call did not return true and no draw was issued
C6_FailedFrameIsNotReady ==
    (lastOp.name = "OnRenderEvent" /\ lastOp.backend = "D3D11"
     /\ (g_D3D11["VertexShader"] = NULL \/ g_D3D11["PixelShader"] = NULL))
    => (lastEnsure # "true" /\ ~Issued(gpuCalls, "Draw"))

\* C6: a failed resource creation is neither treated as ready nor cached.  A
\* render event that leaves the vertex or the pixel shader missing issues no
\* draw and has EnsureD3D11ResourcesAreCreated not return true; and when a
\* shader is missing after one ensure call with a non-empty asset path, the
\* next ensure call runs the creation pass again (it reaches the create calls
\* instead of returning at once).
C6_FailureIsRetriedNotReady ==
    [][ /\ C6_FailedFrameIsNotReady'
        /\ (lastEnsure # "none" /\ lastEnsure' # "none"
            /\ s_UnityStreamingAssetsPath # ""
            /\ (g_D3D11["VertexShader"] = NULL \/ g_D3D11["PixelShader"] = NULL))
           => Issued(gpuCalls', "CreateBuffer") ]_vars

\* C7: recovery from not-ready.  When the latest ensure call returned false
\* (the asset path was unset) and the asset path has since been set to one
\* holding valid shader files, the next render event on D3D11 has the ensure
\* call return true, leaves every member of the resource set created, and
\* draws the triangle with the created shaders bound.
C7_RecoversOncePathIsSet ==
    (lastOp.name = "OnRenderEvent" /\ lastOp.backend = "D3D11"
     /\ prevEnsure = "false" /\ s_UnityStreamingAssetsPath = "ok")
    => /\ lastEnsure = "true"
       /\ lastCreated = Cardinality(Slots)
       /\ \A s \in Slots : g_D3D11[s] # NULL
       /\ IssuedCall(gpuCalls, <<"VSSetShader", "obj">>)
       /\ IssuedCall(gpuCalls, <<"PSSetShader", "obj">>)
       /\ Issued(gpuCalls, "Draw")

\* the render event that recovers: the ensure call before it had failed
C7_Witness ==
    /\ lastOp.name = "OnRenderEvent"
    /\ lastOp.backend = "D3D11"
    /\ prevEnsure = "false"
    /\ s_UnityStreamingAssetsPath = "ok"
    /\ lastEnsure = "true"
    /\ Issued(gpuCalls, "Draw")

\* the statics of a fresh process in which the script has set the shared
\* frame state (path, texture handle, time) to the current values
FreshWithFrameState ==
    [FreshStatics EXCEPT
        !.s_UnityStreamingAssetsPath = s_UnityStreamingAssetsPath,
        !.g_TexturePointer = g_TexturePointer,
        !.g_Time = g_Time]

\* C8: Shutdown then Initialize reproduces a fresh start.  When the device
\* events of a run are Initialize, Shutdown, Initialize for one backend, the
\* second Initialize leaves the statics (backend kind, device, every resource
\* handle), the result of the ensure call and the device calls exactly as a
\* single Initialize of a fresh process with the same asset path and frame
\* state does, and a render event behaves the same from both.
C8_ResetReproducesFreshStart ==
    [][ (trail.stage = "IS" /\ trail'.stage = "ISI")
        => LET fresh == OnGraphicsDeviceEvent(FreshWithFrameState, "Initialize",
                                              trail.renderer, initDevice')
           IN /\ Statics' = fresh.P
              /\ lastEnsure' = fresh.ensure
              /\ gpuCalls' = fresh.calls
              /\ lastCreated' = fresh.created
              /\ \A eventID \in EventIDs :
                    OnRenderEvent(Statics', eventID) = OnRenderEvent(fresh.P, eventID)
      ]_vars

\* Initialize; Shutdown; Initialize on D3D11 ended with the resources created,
\* after a first device lifetime in which the path was changed
C8_Witness ==
    /\ trail = [stage |-> "ISI", renderer |-> "D3D11"]
    /\ lastOp.name = "Initialize"
    /\ lastEnsure = "true"
    /\ g_D3D11["VertexShader"] # NULL
    /\ outstanding > Cardinality(Slots)

\* C9: with the texture handle null, a render event skips the texture fill:
\* it queries no texture description, fills no pixel buffer and uploads no
\* texture, and it still draws the triangle when the resources are ready.
C9_NullTextureSkipsFill ==
    (lastOp.name = "OnRenderEvent" /\ g_TexturePointer = NULL)
    => /\ ~Issued(gpuCalls, "GetDesc")
       /\ ~Issued(gpuCalls, "FillTextureFromCode")
       /\ ~IssuedCall(gpuCalls, <<"UpdateSubresource", "texture">>)
       /\ (lastEnsure = "true" => Issued(gpuCalls, "Draw"))

\* a render event drew the triangle with the texture handle null
C9_Witness ==
    /\ lastOp.name = "OnRenderEvent"
    /\ g_TexturePointer = NULL
    /\ lastEnsure = "true"
    /\ g_D3D11["VertexShader"] # NULL
    /\ Issued(gpuCalls, "Draw")

\* C10: a Shutdown device event, from any reachable state, leaves the backend
\* kind Null, the texture handle null and every member of the resource set
\* released and null.
C10_ShutdownClearsEverything ==
    lastOp.name = "Shutdown"
    => /\ s_DeviceType = "Null"
       /\ g_TexturePointer = NULL
       /\ g_D3D11 = NoResources

\* C11: UnityPluginLoad registers the device-event callback and then runs
\* exactly one Initialize before it returns, the registration first and the
\* Initialize capturing the backend kind the host reports; UnityPluginUnload
\* deregisters the same callback and does nothing else.
C11_LoadRegistersThenInitializes ==
    /\ lastOp.name = "UnityPluginLoad"
       => /\ Len(hostCalls) = 3
          /\ hostCalls[1] = <<"RegisterDeviceEventCallback", "OnGraphicsDeviceEvent">>
          /\ hostCalls[2] = <<"OnGraphicsDeviceEvent", "Initialize">>
          /\ hostCalls[3] = <<"GetRenderer", s_DeviceType>>
          /\ registered
    /\ lastOp.name = "UnityPluginUnload"
       => /\ hostCalls = << <<"UnregisterDeviceEventCallback", "OnGraphicsDeviceEvent">> >>
          /\ ~registered
          /\ gpuCalls = <<>>

\* the plugin was loaded on D3D11 with the asset path known: the Initialize
\* it ran created the resources
C11_Witness ==
    /\ lastOp.name = "UnityPluginLoad"
    /\ s_DeviceType = "D3D11"
    /\ lastEnsure = "true"
    /\ Len(hostCalls) = 3

\* C14: GPU resources never outlive the device.  In every reachable state in
\* which the backend kind is Null, every handle of the resource set is null,
\* whatever the sequence of device events was.
C14_NoResourcesWithoutDevice ==
    s_DeviceType = "Null" => g_D3D11 = NoResources

\* C15: a partially created resource set is never treated as ready.  Whenever
\* a render event issued the draw call, the vertex shader, the pixel shader,
\* the input layout, the vertex buffer and the constant buffer all exist.
C15_DrawOnlyWithFullSet ==
    (lastOp.name = "OnRenderEvent" /\ Issued(gpuCalls, "Draw"))
    => \A s \in {"VertexShader", "PixelShader", "InputLayout", "VB", "CB"} :
          g_D3D11[s] # NULL

\* C16: BeforeReset and AfterReset leave the backend kind, the device handle,
\* every resource handle, the texture handle, the time and the asset path
\* unchanged, and issue no GPU create or release call.
C16_ResetEventsAreNoOps ==
    [][ \A eventType \in {"BeforeReset", "AfterReset"} :
          (/\ lastOp'.name = eventType
           /\ \E renderer \in Renderers, device \in Devices :
                 HostDeviceEvent(eventType, renderer, device))
          => /\ UNCHANGED prog
             /\ gpuCalls' = <<>>
             /\ lastCreated' = 0
             /\ outstanding' = outstanding
             /\ lastEnsure' = "none" ]_vars

\* a BeforeReset was handled on D3D11 with the resources and a texture alive
C16_Witness ==
    /\ lastOp.name = "BeforeReset"
    /\ lastOp.backend = "D3D11"
    /\ s_DeviceType = "D3D11"
    /\ g_D3D11["VertexShader"] # NULL
    /\ g_TexturePointer # NULL

\* the names of the calls that are not create calls, in the order issued
FrameCallNames(calls) ==
    LET kept == SelectSeq(calls, LAMBDA c : c[1] \notin
                    {"CreateBuffer", "CreateVertexShader", "CreatePixelShader",
                     "CreateInputLayout", "CreateRasterizerState",
                     "CreateDepthStencilState", "CreateBlendState"})
    IN [i \in 1..Len(kept) |-> kept[i][1]]

\* the order of the context calls of one rendered frame
RenderedFrameOrder(withTexture) ==
    << "GetImmediateContext", "OMSetDepthStencilState", "RSSetState",
       "OMSetBlendState", "ReleaseContext",
       "GetImmediateContext", "UpdateSubresource", "VSSetConstantBuffers",
       "VSSetShader", "PSSetShader", "UpdateSubresource", "IASetInputLayout",
       "IASetPrimitiveTopology", "IASetVertexBuffers", "Draw" >>
    \o (IF withTexture THEN << "GetDesc", "FillTextureFromCode", "UpdateSubresource" >>
                       ELSE <<>>)
    \o << "ReleaseContext" >>

\* the context calls of a rendered frame come in the order of the claim
C17_OrderOnly ==
    (lastOp.name = "OnRenderEvent" /\ lastOp.backend = "D3D11" /\ lastEnsure = "true")
    => FrameCallNames(gpuCalls) = RenderedFrameOrder(g_TexturePointer # NULL)

\* C17: a render event on D3D11 with resources ready sets the default state,
\* uploads the world matrix, binds the shaders, uploads the 3 vertices, binds
\* input layout and topology, issues exactly one 3-vertex draw, and fills the
\* texture after the draw; and the depth-stencil, rasterizer and blend state
\* objects the default-state step binds are the created ones (non-null), also
\* on the frame in which the resources are first created.
C17_OrderAndCreatedStatesBound ==
    (lastOp.name = "OnRenderEvent" /\ lastOp.backend = "D3D11" /\ lastEnsure = "true")
    => /\ C17_OrderOnly
       /\ IssuedCall(gpuCalls, <<"Draw", "3">>)
       /\ IssuedCall(gpuCalls, <<"OMSetDepthStencilState", "obj">>)
       /\ IssuedCall(gpuCalls, <<"RSSetState", "obj">>)
       /\ IssuedCall(gpuCalls, <<"OMSetBlendState", "obj">>)

\* C12: the texture-fill output is a function of (width, height, time): any
\* two fills with equal width, height and time hand identical pixel buffers to
\* the texture, whatever the backend history, the resources and the bytes the
\* buffer held when it was allocated.
C12_FillDependsOnSizeAndTimeOnly ==
    /\ \A a, b \in fillOutputs :
          (a.width = b.width /\ a.height = b.height /\ a.time = b.time)
          => a.pixels = b.pixels
    /\ \A a \in fillOutputs : \A i \in 1..Len(a.pixels) : a.pixels[i] \in 0..255

\* two fills of equal size and time have completed, the second one after the
\* resource set changed and over other initial buffer contents
C12_Witness ==
    /\ fillRun.pc = "free"
    /\ fillRun.data[1] # 255
    /\ prevEnsure = "true"
    /\ lastCreated = 0
    /\ [width |-> fillRun.width, height |-> fillRun.height,
        time |-> fillRun.time, pixels |-> fillRun.uploaded] \in fillOutputs
    /\ \E a \in fillOutputs : a.time # fillRun.time /\ a.pixels # fillRun.uploaded

\* the byte offsets of pixel (x, y) in a buffer of the given width
PixelBytes(width, x, y) == {(y * width + x) * 4 + c : c \in 1..4}

\* C18: the fill writes each of the W*H pixels exactly once, the same value in
\* its four channels, every write inside the W*H*4-byte buffer, and the whole
\* buffer is uploaded to the texture before it is freed.
C18_EveryPixelOnceThenUploaded ==
    /\ fillRun.pc # "idle"
       => /\ Len(fillRun.data) = fillRun.width * fillRun.height * 4
          /\ ~fillRun.oob
          /\ \A i \in 1..Len(fillRun.writes) : fillRun.writes[i] <= 1
    /\ fillRun.pc \in {"upload", "free"}
       => /\ \A i \in 1..Len(fillRun.writes) : fillRun.writes[i] = 1
          /\ \A x \in 0..(fillRun.width - 1), y \in 0..(fillRun.height - 1) :
                \A i \in PixelBytes(fillRun.width, x, y) :
                   fillRun.data[i] = ToByte(PlasmaValue(x, y, fillRun.t))
    /\ fillRun.pc = "free"
       => /\ fillRun.uploaded = fillRun.data
          /\ Len(fillRun.uploaded) = fillRun.width * fillRun.height * 4
          /\ gpuCalls[Len(gpuCalls)] = <<"UpdateSubresource", "texture">>
    /\ fillRun.pc \in {"row", "pixel", "upload"} => fillRun.uploaded = <<>>

\* a whole texture went to the GPU and its buffer is about to be freed
C18_Witness ==
    /\ fillRun.pc = "free"
    /\ fillRun.width * fillRun.height > 1
    /\ fillRun.width # fillRun.height
    /\ Len(fillRun.uploaded) = fillRun.width * fillRun.height * 4
    /\ \E i, j \in 1..Len(fillRun.uploaded) : fillRun.uploaded[i] # fillRun.uploaded[j]

\* C13: no shared field read by the render thread is torn.  Every read of the
\* time, the texture handle and the asset path made inside a render event
\* while the script thread runs a setter observes the value before the setter
\* or the value after it, in full.
C13_NoTornRead ==
    rt.read.seen \in {rt.read.before, rt.read.after}

\* C19: the handle a render event dereferences for the texture update is the
\* non-null value that passed its null test, also when SetTextureFromUnity
\* runs on the script thread during the event.
C19_UsesTheHandleItChecked ==
    rt.pc \in {"fill", "crashed"}
    => /\ rt.d3dtex = rt.checked
       /\ rt.d3dtex # NULL

\* C20: within one render event the time read for the world-matrix angle
\* equals the time read by the texture fill, also when SetTimeFromUnity runs
\* on the script thread during the event.
C20_OneTimePerFrame ==
    (rt.pc = "done" /\ rt.d3dtex # NULL)
    => rt.t = rt.phi

\* the immediate contexts acquired and not yet released after the first k calls
ContextsHeld(calls, k) ==
    Cardinality({i \in 1..k : calls[i][1] = "GetImmediateContext"})
    - Cardinality({i \in 1..k : calls[i][1] = "ReleaseContext"})

\* the calls made on the device itself
DeviceCalls ==
    {"GetImmediateContext", "CreateBuffer", "CreateVertexShader", "CreatePixelShader",
     "CreateInputLayout", "CreateRasterizerState", "CreateDepthStencilState",
     "CreateBlendState"}

\* C21: in every reachable state in which the backend kind is D3D11 the
\* captured device handle is the one the host handed out at the most recent
\* Initialize and is non-null; a handler that called the device (a render
\* event acquiring a context, a resource creation) did so through that
\* handle; and every immediate context a render event acquired is released
\* before the event returns, at most one being held at a time.
C21_DeviceCapturedAndContextsReleased ==
    /\ s_DeviceType = "D3D11"
       => /\ g_D3D11Device # NULL
          /\ g_D3D11Device = initDevice
    /\ (\E n \in DeviceCalls : Issued(gpuCalls, n))
       => /\ s_DeviceType = "D3D11"
          /\ g_D3D11Device # NULL
          /\ g_D3D11Device = initDevice
          /\ ~IssuedCall(gpuCalls, <<"GetImmediateContext", "null">>)
    /\ lastOp.name = "OnRenderEvent"
       => /\ ContextsHeld(gpuCalls, Len(gpuCalls)) = 0
          /\ \A k \in 0..Len(gpuCalls) : ContextsHeld(gpuCalls, k) \in {0, 1}

\* a frame was drawn, two contexts acquired and released, on the device of a
\* second D3D11 lifetime that is not the host's first device
C21_Witness ==
    /\ lastOp.name = "OnRenderEvent"
    /\ s_DeviceType = "D3D11"
    /\ trail = [stage |-> "ISI", renderer |-> "D3D11"]
    /\ g_D3D11Device # FirstDevice
    /\ g_D3D11Device = initDevice
    /\ Issued(gpuCalls, "Draw")
    /\ Issued(gpuCalls, "CreateBuffer")
    /\ Cardinality({i \in 1..Len(gpuCalls) : gpuCalls[i][1] = "GetImmediateContext"}) = 2

====
